---- MODULE Spec2Model ----
(***************************************************************************)
(* Model of the misinformation-analyzer pipeline in its three variants:    *)
(*   "app"    : src/app.py            (browser UI, Streamlit)               *)
(*   "cli"    : src/doc_extractor.py  (command line)                        *)
(*   "server" : src/server.py         (HTTP server, Flask)                  *)
(* One process runs one variant.  A request walks through the positions of *)
(* the front-end handler and of run_full_analysis; every call to an        *)
(* external collaborator (file extractors, URL fetch, remote model, NER,   *)
(* web search) draws its outcome from a small set.                         *)
(***************************************************************************)
EXTENDS Integers, Sequences, FiniteSets, TLC

VARIABLES
    variant,                \* which program this process is
    config,                 \* the environment-supplied configuration
    pc,                     \* position of the process
    gemini_model,           \* self.gemini_model: "handle" or "None"
    spacy_nlp,              \* self.spacy_nlp (cli, server): "handle" or "None"
    google_search_service,  \* self.google_search_service: "handle" or "None"
    source,                 \* app/cli: the input string of the request
    fs_exists,              \* app/cli: os.path.exists(source) for this request
    data,                   \* server: request.get_json() of the request
    extracted_text,         \* text handed to the classifier
    gemini_analysis,        \* return value of _analyze_text_with_gemini
    spacy_entities,         \* cli: return value of _extract_entities_with_spacy
    final_report,           \* return value of run_full_analysis
    raised,                 \* exception that left the current call, or "none"
    calls,                  \* calls made to collaborators during this request
    log,                    \* errors logged during this request
    search_num,             \* the num parameter of the search request sent
    response,               \* what the front-end handed back for the request
    failed_before,          \* history: an earlier request of this process failed
    pdf,                    \* one run of _extract_text_from_pdf, page by page
    fence,                  \* one model reply and what the cleaning makes of it
    threads                 \* server: the requests handled concurrently

\* the variables of the three component studies (PDF extraction, reply
\* cleaning, concurrent requests); the process model leaves them alone
aux_vars == <<pdf, fence, threads>>

vars == <<variant, config, pc, gemini_model, spacy_nlp, google_search_service,
          source, fs_exists, data, extracted_text, gemini_analysis,
          spacy_entities, final_report, raised, calls, log, search_num,
          response, failed_before, pdf, fence, threads>>

Variants == {"app", "cli", "server"}

-----------------------------------------------------------------------------
(* Bounds and program constants *)

\* largest number of items a search response carries in the model
MaxItems == 4

\* num=3 in the search request
SearchNum == 3

-----------------------------------------------------------------------------
(* JSON / Python values: a type tag and a printed value *)

J(t, v) == [t |-> t, v |-> v]
Absent == J("absent", "")
JNull == J("null", "")
JStr(s) == J("str", s)

\* Python truthiness (bool(x)) of a value
Truthy(j) ==
    CASE j.t = "str" -> j.v # ""
      [] j.t = "num" -> j.v # "0"
      [] j.t = "bool" -> j.v = "true"
      [] j.t = "list" -> j.v # "[]"
      [] j.t = "obj" -> j.v # "{}"
      [] OTHER -> FALSE

\* lists and dicts cannot be dictionary keys (TypeError: unhashable type)
Hashable(j) == j.t \notin {"list", "obj"}

-----------------------------------------------------------------------------
(* Input strings of the app and cli variants: scheme prefix, stem, extension *)

Src(scheme, stem, ext) == [scheme |-> scheme, stem |-> stem, ext |-> ext]
BlankSource == Src("", "", "")
NoSource == Src("", "-", "")

Exts == {"", ".docx", ".DOCX", ".pdf", ".png", ".jpg", ".JPEG", ".tiff",
         ".bmp", ".txt", ".TXT", ".doc"}

Sources ==
    {Src("", "news", e) : e \in Exts}
    \cup {Src(s, "site/news", e) : s \in {"http://", "HTTPS://"}, e \in {"", ".txt", ".pdf"}}
    \cup {BlankSource}

\* str.lower() on the strings of the model
Lower(s) ==
    CASE s = "HTTPS://" -> "https://"
      [] s = ".DOCX" -> ".docx"
      [] s = ".JPEG" -> ".jpeg"
      [] s = ".TXT" -> ".txt"
      [] OTHER -> s

\* source.lower().startswith(('http://', 'https://'))
IsUrl(src) == Lower(src.scheme) \in {"http://", "https://"}

\* os.path.splitext(source)[1].lower()
FileExtension(src) == Lower(src.ext)

ImageExts == {".png", ".jpg", ".jpeg", ".tiff", ".bmp"}

\* source.strip() is non-empty
NonBlank(src) == src # BlankSource

-----------------------------------------------------------------------------
(* Extracted text: where it came from, and its value *)

Text(origin, t, v) == [origin |-> origin, t |-> t, v |-> v]
TextNone == Text("none", "null", "")

\* outcome of one extractor (docx, pdf, image, url fetch): it raises inside
\* its try block, yields an empty string, or yields text
ExtractOutcomes == {"raise", "empty", "text"}

Extracted(kind, out) ==
    CASE out = "raise" -> TextNone
      [] out = "empty" -> Text(kind, "str", "")
      [] OTHER -> Text(kind, "str", "text")

\* the extractor the resolver dispatches to, "none" if it calls none
DispatchByExtension(src) ==
    CASE FileExtension(src) = ".docx" -> "docx"
      [] FileExtension(src) = ".pdf" -> "pdf"
      [] FileExtension(src) \in ImageExts -> "image"
      [] OTHER -> "none"

\* mutant: an unsupported extension falls through to the literal-text branch
get_text_from_source_fallthrough(src, exists, out) ==
    IF IsUrl(src) THEN Extracted("url", out)
    ELSE IF exists /\ DispatchByExtension(src) # "none"
         THEN Extracted(DispatchByExtension(src), out)
         ELSE Text("literal", "str", IF NonBlank(src) THEN "source" ELSE "")

\* app.py get_text_from_source
get_text_from_source(src, exists, out) ==
    IF IsUrl(src) THEN Extracted("url", out)
    ELSE IF exists
         THEN IF DispatchByExtension(src) = "none"
              THEN TextNone
              ELSE Extracted(DispatchByExtension(src), out)
         ELSE Text("literal", "str", IF NonBlank(src) THEN "source" ELSE "")

\* mutant: a missing file is taken as literal text, as in app.py
cli_get_text_from_input_literal(src, exists, out) ==
    IF IsUrl(src) THEN Extracted("url", out)
    ELSE IF exists
         THEN IF DispatchByExtension(src) = "none"
              THEN TextNone
              ELSE Extracted(DispatchByExtension(src), out)
         ELSE Text("literal", "str", IF NonBlank(src) THEN "source" ELSE "")

\* doc_extractor.py _get_text_from_input
cli_get_text_from_input(src, exists, out) ==
    IF IsUrl(src) THEN Extracted("url", out)
    ELSE IF exists
         THEN IF DispatchByExtension(src) = "none"
              THEN TextNone
              ELSE Extracted(DispatchByExtension(src), out)
         ELSE TextNone

\* server.py _get_text_from_input: the text is passed through
server_get_text_from_input(text_input) == Text("literal", text_input.t, text_input.v)

\* mutant: an existing file is looked for before the scheme prefix
ExtractorInvoked_file_first(src, exists) ==
    IF exists THEN DispatchByExtension(src)
    ELSE IF IsUrl(src) THEN "url"
    ELSE "none"

\* the extractor a resolver run invokes ("none": no extractor call)
ExtractorInvoked(src, exists) ==
    IF IsUrl(src) THEN "url"
    ELSE IF exists THEN DispatchByExtension(src)
    ELSE "none"

\* what the resolver and the extractor it calls pass to logging.error
ResolverLog(v, src, exists, out) ==
    IF IsUrl(src)
    THEN (IF out = "raise" THEN {"Failed to process URL"} ELSE {})
    ELSE IF exists
         THEN IF DispatchByExtension(src) = "none"
              THEN {"Unsupported file type"}
              ELSE (IF out = "raise" THEN {"Error reading file"} ELSE {})
         ELSE (IF v = "cli" THEN {"Input source not found"} ELSE {})

-----------------------------------------------------------------------------
(* The classifier: the remote model's reply and the parsed verdict object *)

\* a parsed reply: type tag, printed value, and the three keys the pipeline
\* reads when the value is an object (Absent: the key is missing)
G(t, v, verdict, main_claim, scam_category) ==
    [t |-> t, v |-> v, verdict |-> verdict, main_claim |-> main_claim,
     scam_category |-> scam_category]

\* Python None, which is also what json.loads("null") returns
GNone == G("null", "", Absent, Absent, Absent)

Scalar(t, v) == G(t, v, Absent, Absent, Absent)

\* a JSON object; other: it has keys besides the three
Obj(verdict, main_claim, scam_category, other) ==
    G("obj",
      IF verdict = Absent /\ main_claim = Absent /\ scam_category = Absent /\ ~other
      THEN "{}" ELSE "{..}",
      verdict, main_claim, scam_category)

Verdicts == {Absent, JStr("FAKE"), JStr("REAL")}
MainClaims == {Absent, JStr(""), JStr("claim")}
Categories == {Absent, JNull, JStr("Job Scam"), JStr("Financial Fraud"),
               JStr("N/A"), JStr("Lottery Scam"), J("list", "[..]")}

ReplyObjects ==
    {Obj(vd, mc, sc, TRUE) : vd \in Verdicts, mc \in MainClaims, sc \in Categories}
    \cup {Obj(Absent, Absent, Absent, FALSE)}

ReplyNonObjects ==
    {Scalar("list", "[..]"), Scalar("list", "[]"), Scalar("str", "text"),
     Scalar("num", "7"), Scalar("num", "0"), Scalar("bool", "true"), GNone}

\* outcome of generate_content followed by json.loads of the cleaned reply
Reply(call, parse, value) == [call |-> call, parse |-> parse, value |-> value]

GeminiOutcomes ==
    {Reply("raises", "-", GNone), Reply("ok", "JSONDecodeError", GNone)}
    \cup {Reply("ok", "value", g) : g \in ReplyObjects \cup ReplyNonObjects}

\* mutant: a failed call of the remote model is repeated once
GeminiAttempts_retry(reply) == IF reply.call = "raises" THEN 2 ELSE 1

\* generate_content calls made by one _analyze_text_with_gemini
GeminiAttempts(reply) == 1

\* _analyze_text_with_gemini: None when the call raises or the reply does
\* not parse, else whatever json.loads returned
analyze_text_with_gemini(reply) ==
    IF reply.call = "raises" THEN GNone
    ELSE IF reply.parse = "JSONDecodeError" THEN GNone
    ELSE reply.value

\* what _analyze_text_with_gemini passes to logging.error
ClassifierLog(v, reply) ==
    IF reply.call = "raises"
    THEN {IF v = "server" THEN "Gemini API Error" ELSE "An error occurred with the Gemini API"}
    ELSE IF reply.parse = "JSONDecodeError"
    THEN {IF v = "server" THEN "Gemini API Error" ELSE "AI returned an invalid JSON format."}
    ELSE {}

\* mutant: the result is tested with "is None" instead of "not"
ClassifierFailed_is_none(g) == g = GNone

\* run_full_analysis: "if not gemini_analysis"
ClassifierFailed(g) == ~Truthy(g)

\* only a dict has .get; on anything else the attribute lookup raises
HasGet(g) == g.t = "obj"

\* dict.get(key): None when the key is missing
dict_get(g, key) == IF g[key] = Absent THEN JNull ELSE g[key]

\* dict.get(key, default)
dict_get_default(g, key, default) == IF g[key] = Absent THEN default ELSE g[key]

-----------------------------------------------------------------------------
(* Remedy lookup *)

Info(link, description) == [link |-> link, description |-> description]

\* link_map of app.py and doc_extractor.py
link_map_long ==
    [c \in {"Financial Fraud", "Health Misinformation", "Job Scam",
            "Impersonation", "General Fake News"} |->
       CASE c = "Financial Fraud" ->
              Info("https://sachet.rbi.org.in/",
                   "For financial fraud, report to the RBI's Sachet portal and the National Cyber Crime Portal.")
         [] c = "Health Misinformation" ->
              Info("https://factcheck.pib.gov.in/",
                   "Report health-related fake news to the Press Information Bureau (PIB) Fact Check unit.")
         [] c = "Job Scam" ->
              Info("https://cybercrime.gov.in/",
                   "Job scams are a serious crime. Report them immediately to the National Cyber Crime Portal.")
         [] c = "Impersonation" ->
              Info("https://cybercrime.gov.in/",
                   "Report impersonation on the social media platform itself and also to the National Cyber Crime Portal.")
         [] OTHER ->
              Info("https://factcheck.pib.gov.in/",
                   "For general fake news, report to the Press Information Bureau (PIB) Fact Check unit.")]

\* link_map of server.py
link_map_server ==
    [c \in {"Financial Fraud", "Health Misinformation", "Job Scam",
            "Impersonation", "General Fake News"} |->
       CASE c = "Financial Fraud" ->
              Info("https://sachet.rbi.org.in/", "Report to the RBI's Sachet portal.")
         [] c \in {"Job Scam", "Impersonation"} ->
              Info("https://cybercrime.gov.in/", "Report to the National Cyber Crime Portal.")
         [] OTHER ->
              Info("https://factcheck.pib.gov.in/",
                   "Report to the Press Information Bureau (PIB) Fact Check unit.")]

link_map(v) == IF v = "server" THEN link_map_server ELSE link_map_long

\* the fixed list of safety tips
SafetyTips(v) ==
    IF v = "server"
    THEN <<"Verify info with trusted sources.", "Be skeptical of sensational offers.",
           "Never share personal financial data.">>
    ELSE <<"Always verify information with trusted sources before sharing or acting on it.",
           "Be skeptical of offers that seem too good to be true.",
           "Never share personal or financial information based on an unsolicited message.">>

\* mutant: the lookup ignores the category and takes the default entry
link_map_get_default_only(v, scam_category) == link_map(v)["General Fake News"]

\* link_map.get(scam_category, link_map["General Fake News"])
link_map_get(v, scam_category) ==
    IF scam_category.t = "str" /\ scam_category.v \in DOMAIN link_map(v)
    THEN link_map(v)[scam_category.v]
    ELSE link_map(v)["General Fake News"]

Remedy(title_for, link, description, tips) ==
    [title_for |-> title_for, reporting_link |-> link,
     reporting_description |-> description, remedies |-> tips]

NoRemedy == Remedy(Absent, "", "", <<>>)

\* hashing the key of link_map.get raises TypeError for a list or a dict
RemediesRaises(scam_category) == ~Hashable(scam_category)

\* _get_remedies_and_reporting_info, for a category it does not raise on
get_remedies_and_reporting_info(v, scam_category) ==
    Remedy(scam_category,
           link_map_get(v, scam_category).link,
           link_map_get(v, scam_category).description,
           SafetyTips(v))

-----------------------------------------------------------------------------
(* Related-news lookup *)

Item(i) == [title |-> i, link |-> i]

\* outcome of cse().list(...).execute(): it raises, or returns a response
\* with n items (hasItems FALSE: no 'items' key; wellFormed FALSE: an item
\* lacks 'title' or 'link')
SO(kind, n, hasItems, wellFormed) ==
    [kind |-> kind, n |-> n, hasItems |-> hasItems, wellFormed |-> wellFormed]

NoSearch == SO("not called", 0, FALSE, TRUE)

SearchOutcomes ==
    {SO("raise", 0, FALSE, TRUE), SO("ok", 0, FALSE, TRUE), SO("ok", 1, TRUE, FALSE)}
    \cup {SO("ok", n, TRUE, TRUE) : n \in 0..MaxItems}

News(isNone, items) == [isNone |-> isNone, items |-> items]
NewsNone == News(TRUE, <<>>)

\* the search service is called iff the handle exists
SearchCalled(service) == service # "None"

\* the num parameter of the request
RequestedNum == SearchNum

\* [{"title": item['title'], "link": item['link']} for item in result.get('items', [])]
ItemsOf(out) == IF out.hasItems THEN [i \in 1..out.n |-> Item(i)] ELSE <<>>

\* cse().list(...).execute() calls made by one _get_related_news with a handle
SearchAttempts(out) == 1

\* _get_related_news
get_related_news(service, out) ==
    IF service = "None" THEN NewsNone
    ELSE IF out.kind = "raise" \/ ~out.wellFormed THEN NewsNone
    ELSE News(FALSE, ItemsOf(out))

\* what _get_related_news passes to logging.error
SearchLog(service, out) ==
    IF service # "None" /\ (out.kind = "raise" \/ ~out.wellFormed)
    THEN {"Google Search API request failed"} ELSE {}

-----------------------------------------------------------------------------
(* Reports *)

Report(keys, error, g, ents, rem, news) ==
    [keys |-> keys, error |-> error, gemini_report |-> g, named_entities |-> ents,
     remedies_report |-> rem, related_news |-> news]

NoReport == Report({}, "", GNone, "-", NoRemedy, NewsNone)

\* mutant: the error report also carries an empty entities section
ErrorReport_with_entities(msg) ==
    Report({"error", "named_entities"}, msg, GNone, "-", NoRemedy, NewsNone)

\* {"error": msg}
ErrorReport(msg) == Report({"error"}, msg, GNone, "-", NoRemedy, NewsNone)

ExtractErrorMessage(v) ==
    IF v = "server" THEN "Input text is empty."
    ELSE "Failed to extract text from the source."

ClassifierErrorMessage(v) ==
    IF v = "app" THEN "Failed to get analysis from the AI model."
    ELSE "Failed to get analysis from Gemini API."

-----------------------------------------------------------------------------
(* The HTTP request body of the server variant *)

\* request.get_json(): type tag, printed value, and the value of the
\* "text" key when the body is an object (Absent: no such key)
B(t, v, text) == [t |-> t, v |-> v, text |-> text]

Bodies ==
    {B("null", "", Absent), B("obj", "{}", Absent), B("obj", "{..}", Absent),
     B("list", "[]", Absent), B("list", "[text]", Absent), B("list", "[a]", Absent),
     B("str", "", Absent), B("str", "some text", Absent), B("str", "hello", Absent),
     B("num", "0", Absent), B("num", "5", Absent), B("bool", "true", Absent)}
    \cup {B("obj", "{..}", t) : t \in {JStr("the text"), JStr("http://site/news"),
                                      JStr(""), JNull, J("num", "7")}}

\* evaluating ('text' in data) raises TypeError: a number or a boolean is
\* not iterable
InRaises(body) == body.t \in {"num", "bool"}

\* 'text' in data: a key of a dict, an element of a list, a substring of a string
TextIn(body) ==
    CASE body.t = "obj" -> body.text # Absent
      [] body.t = "list" -> body.v = "[text]"
      [] body.t = "str" -> body.v = "some text"
      [] OTHER -> FALSE

\* data['text'] raises TypeError on a list or a string
SubscriptRaises(body) == body.t # "obj"

Resp(status, kind, body) == [status |-> status, kind |-> kind, body |-> body]
NoResponse == Resp(0, "none", NoReport)

-----------------------------------------------------------------------------
(* Assembly of the report in run_full_analysis *)

IsFake(g) == dict_get(g, "verdict") = JStr("FAKE")

CategoryOf(g) == dict_get_default(g, "scam_category", JStr("General Fake News"))

\* mutant: the remedies are keyed on the category instead of the verdict
RemedyAttempted_by_category(v, g) ==
    HasGet(g) /\ dict_get(g, "scam_category") \notin {JNull, JStr("N/A")}

\* the remedy lookup is made: "if gemini_analysis.get("verdict") == "FAKE""
RemedyAttempted(v, g) == HasGet(g) /\ IsFake(g)

\* mutant: every variant looks for related news whatever the verdict
NewsAttempted_any_verdict(v, g) ==
    /\ HasGet(g)
    /\ Truthy(dict_get(g, "main_claim"))

\* the related-news lookup is made: app.py for every verdict, before the
\* remedies; doc_extractor.py and server.py for FAKE only, after them
NewsAttempted(v, g) ==
    /\ HasGet(g)
    /\ Truthy(dict_get(g, "main_claim"))
    /\ v # "app" => IsFake(g) /\ ~RemediesRaises(CategoryOf(g))

\* the exception that leaves the assembly, "none" if it completes
AssemblyRaises(v, g) ==
    IF ~HasGet(g) THEN "AttributeError"
    ELSE IF IsFake(g) /\ RemediesRaises(CategoryOf(g)) THEN "TypeError"
    ELSE "none"

\* the report a completed assembly returns
Assemble(v, g, ents, service, out) ==
    Report({"gemini_report"}
             \cup (IF v = "cli" THEN {"named_entities"} ELSE {})
             \cup (IF RemedyAttempted(v, g) THEN {"remedies_report"} ELSE {})
             \cup (IF NewsAttempted(v, g) THEN {"related_news"} ELSE {}),
           "",
           g,
           ents,
           IF RemedyAttempted(v, g)
           THEN get_remedies_and_reporting_info(v, CategoryOf(g)) ELSE NoRemedy,
           IF NewsAttempted(v, g) THEN get_related_news(service, out) ELSE NewsNone)

-----------------------------------------------------------------------------
(* State machine *)

Calls(extractor, gemini, ner, search, remedy) ==
    [extractor |-> extractor, gemini |-> gemini, ner |-> ner, search |-> search,
     remedy |-> remedy]
NoCalls == Calls("none", 0, 0, 0, 0)

\* the component studies at rest
PdfIdle == [pos |-> "idle"]
FenceIdle == [pos |-> "idle"]
ThreadsIdle == [pos |-> "idle"]

Configs == [GEMINI_API_KEY : BOOLEAN, SEARCH_API_KEY : BOOLEAN, SEARCH_ENGINE_ID : BOOLEAN]

Init ==
    /\ variant \in Variants
    /\ config \in Configs
    /\ pc = "start"
    /\ gemini_model = "None"
    /\ spacy_nlp = "None"
    /\ google_search_service = "None"
    /\ failed_before = FALSE
    /\ pdf = PdfIdle
    /\ fence = FenceIdle
    /\ threads = ThreadsIdle
    /\ source = NoSource
    /\ fs_exists = FALSE
    /\ data = B("null", "", Absent)
    /\ extracted_text = TextNone
    /\ gemini_analysis = GNone
    /\ spacy_entities = "-"
    /\ final_report = NoReport
    /\ raised = "none"
    /\ calls = NoCalls
    /\ log = {}
    /\ search_num = 0
    /\ response = NoResponse

\* mutant: only the API key is tested before the search client is built
SearchHandle_key_only(cfg, build_raises) ==
    IF cfg.SEARCH_API_KEY /\ ~build_raises THEN "handle" ELSE "None"

\* the handle __init__ stores for the search service
SearchHandle(cfg, build_raises) ==
    IF cfg.SEARCH_API_KEY /\ cfg.SEARCH_ENGINE_ID /\ ~build_raises THEN "handle" ELSE "None"

\* mutant: the credential check is missing
CredentialMissing_unchecked(cfg) == FALSE

\* __init__: "if not config.get("GEMINI_API_KEY")"
CredentialMissing(cfg) == ~cfg.GEMINI_API_KEY

\* MisinformationAnalyzer.__init__, called once at process start
Construct ==
    /\ pc = "start"
    /\ IF CredentialMissing(config)
       THEN /\ pc' = "dead"
            /\ raised' = "ValueError: API key not found"
            /\ UNCHANGED <<gemini_model, spacy_nlp, google_search_service>>
       ELSE /\ gemini_model' = "handle"
            /\ spacy_nlp' = IF variant \in {"cli", "server"} THEN "handle" ELSE "None"
            /\ \E build_raises \in BOOLEAN :
                 google_search_service' = SearchHandle(config, build_raises)
            /\ pc' = "idle"
            /\ UNCHANGED raised
    /\ UNCHANGED aux_vars
    /\ UNCHANGED <<variant, config, source, fs_exists, data, extracted_text,
                   gemini_analysis, spacy_entities, final_report, calls, log,
                   search_num, response, failed_before>>

\* the outcomes an extractor call can have; no extractor, no outcome
OutcomesFor(src, exists) ==
    IF ExtractorInvoked(src, exists) = "none" THEN {"not called"} ELSE ExtractOutcomes

\* app.py: the Analyze button, up to the call of run_full_analysis
AppAnalyze ==
    /\ variant = "app" /\ pc = "idle"
    /\ \E src \in Sources, exists \in BOOLEAN :
         /\ ~NonBlank(src) => ~exists
         /\ source' = src
         /\ fs_exists' = exists
         /\ IF ~NonBlank(src)
            THEN /\ response' = Resp(0, "warning", NoReport)
                 /\ pc' = "responded"
                 /\ UNCHANGED <<extracted_text, calls, log>>
            ELSE \E out \in OutcomesFor(src, exists) :
                 /\ extracted_text' = get_text_from_source(src, exists, out)
                 /\ log' = ResolverLog(variant, src, exists, out)
                 /\ calls' = [calls EXCEPT !.extractor = ExtractorInvoked(src, exists)]
                 /\ IF ~Truthy(extracted_text')
                    THEN /\ response' = Resp(0, "st_error", NoReport)
                         /\ pc' = "responded"
                    ELSE /\ pc' = "classify"
                         /\ UNCHANGED response
    /\ UNCHANGED aux_vars
    /\ UNCHANGED <<variant, config, gemini_model, spacy_nlp, failed_before,
                   google_search_service, data, gemini_analysis,
                   spacy_entities, final_report, raised, search_num>>

\* doc_extractor.py: input() and the first step of run_full_analysis
CliRun ==
    /\ variant = "cli" /\ pc = "idle"
    /\ \E src \in Sources, exists \in BOOLEAN :
         /\ ~NonBlank(src) => ~exists
         /\ source' = src
         /\ fs_exists' = exists
         /\ \E out \in OutcomesFor(src, exists) :
              /\ extracted_text' = cli_get_text_from_input(src, exists, out)
              /\ log' = ResolverLog(variant, src, exists, out)
              /\ calls' = [calls EXCEPT !.extractor = ExtractorInvoked(src, exists)]
              /\ IF ~Truthy(extracted_text')
                 THEN /\ final_report' = ErrorReport(ExtractErrorMessage(variant))
                      /\ pc' = "returned"
                 ELSE /\ pc' = "classify"
                      /\ UNCHANGED final_report
    /\ UNCHANGED aux_vars
    /\ UNCHANGED <<variant, config, gemini_model, spacy_nlp, failed_before,
                   google_search_service, data, gemini_analysis,
                   spacy_entities, raised, search_num, response>>

\* server.py analyze_endpoint, up to and including the first step of
\* run_full_analysis
AnalyzeEndpoint ==
    /\ variant = "server" /\ pc = "idle"
    /\ \E body \in Bodies :
         /\ data' = body
         /\ IF ~Truthy(body)
            THEN /\ response' = Resp(400, "json", ErrorReport("No text provided"))
                 /\ pc' = "responded"
                 /\ UNCHANGED <<extracted_text, final_report, raised>>
            ELSE IF InRaises(body) \/ (TextIn(body) /\ SubscriptRaises(body))
            THEN /\ response' = Resp(500, "unhandled", NoReport)
                 /\ raised' = "TypeError"
                 /\ pc' = "responded"
                 /\ UNCHANGED <<extracted_text, final_report>>
            ELSE IF ~TextIn(body)
            THEN /\ response' = Resp(400, "json", ErrorReport("No text provided"))
                 /\ pc' = "responded"
                 /\ UNCHANGED <<extracted_text, final_report, raised>>
            ELSE /\ extracted_text' = server_get_text_from_input(body.text)
                 /\ IF ~Truthy(extracted_text')
                    THEN /\ final_report' = ErrorReport(ExtractErrorMessage(variant))
                         /\ pc' = "returned"
                    ELSE /\ pc' = "classify"
                         /\ UNCHANGED final_report
                 /\ UNCHANGED <<response, raised>>
    /\ UNCHANGED aux_vars
    /\ UNCHANGED <<variant, config, gemini_model, spacy_nlp, failed_before,
                   google_search_service, source, fs_exists,
                   gemini_analysis, spacy_entities, calls, log, search_num>>

\* run_full_analysis: the classifier call and the check of its result
Classify ==
    /\ pc = "classify"
    /\ \E reply \in GeminiOutcomes :
         /\ gemini_analysis' = analyze_text_with_gemini(reply)
         /\ calls' = [calls EXCEPT !.gemini = @ + GeminiAttempts(reply)]
         /\ log' = log \cup ClassifierLog(variant, reply)
         /\ IF ClassifierFailed(gemini_analysis')
            THEN /\ final_report' = ErrorReport(ClassifierErrorMessage(variant))
                 /\ pc' = "returned"
            ELSE /\ pc' = IF variant = "cli" THEN "entities" ELSE "enrich"
                 /\ UNCHANGED final_report
    /\ UNCHANGED aux_vars
    /\ UNCHANGED <<variant, config, gemini_model, spacy_nlp, failed_before,
                   google_search_service, source, fs_exists, data,
                   extracted_text, spacy_entities, raised, search_num, response>>

\* doc_extractor.py run_full_analysis: the named-entity pass, outside any try
ExtractEntities ==
    /\ pc = "entities"
    /\ calls' = [calls EXCEPT !.ner = @ + 1]
    /\ \E ner_raises \in BOOLEAN :
         IF ner_raises
         THEN /\ raised' = "ValueError: spaCy"
              /\ pc' = "raised"
              /\ UNCHANGED spacy_entities
         ELSE /\ spacy_entities' = "entities"
              /\ pc' = "enrich"
              /\ UNCHANGED raised
    /\ UNCHANGED aux_vars
    /\ UNCHANGED <<variant, config, gemini_model, spacy_nlp, failed_before,
                   google_search_service, source, fs_exists, data,
                   extracted_text, gemini_analysis, final_report, log, search_num,
                   response>>

\* run_full_analysis: the enrichment and the assembly of the report
Enrich ==
    /\ pc = "enrich"
    /\ \E out \in (IF NewsAttempted(variant, gemini_analysis)
                      /\ SearchCalled(google_search_service)
                   THEN SearchOutcomes ELSE {NoSearch}) :
         /\ calls' = [calls EXCEPT
                        !.search = IF out = NoSearch THEN @ ELSE @ + SearchAttempts(out),
                        !.remedy = IF RemedyAttempted(variant, gemini_analysis)
                                   THEN @ + 1 ELSE @]
         /\ search_num' = IF out = NoSearch THEN search_num ELSE RequestedNum
         /\ log' = log \cup SearchLog(google_search_service, out)
         /\ IF AssemblyRaises(variant, gemini_analysis) # "none"
            THEN /\ raised' = AssemblyRaises(variant, gemini_analysis)
                 /\ pc' = "raised"
                 /\ UNCHANGED final_report
            ELSE /\ final_report' = Assemble(variant, gemini_analysis, spacy_entities,
                                              google_search_service, out)
                 /\ pc' = "returned"
                 /\ UNCHANGED raised
    /\ UNCHANGED aux_vars
    /\ UNCHANGED <<variant, config, gemini_model, spacy_nlp, failed_before,
                   google_search_service, source, fs_exists, data,
                   extracted_text, gemini_analysis, spacy_entities, response>>

\* the HTTP status analyze_endpoint answers a returned report with
StatusOf(report) == IF "error" \in report.keys THEN 500 ELSE 200

\* the front-end's handling of what run_full_analysis returned or raised
Respond ==
    /\ pc \in {"returned", "raised"}
    /\ response' =
         CASE variant = "server" /\ pc = "returned" ->
                Resp(StatusOf(final_report), "json", final_report)
           [] variant = "server" /\ pc = "raised" ->
                Resp(500, "json", ErrorReport("An internal server error occurred."))
           [] variant = "app" /\ pc = "returned" -> Resp(0, "display", final_report)
           [] variant = "cli" /\ pc = "returned" -> Resp(0, "print", final_report)
           [] OTHER -> Resp(0, "critical", NoReport)
    /\ pc' = "responded"
    /\ UNCHANGED aux_vars
    /\ UNCHANGED <<variant, config, gemini_model, spacy_nlp, failed_before,
                   google_search_service, source, fs_exists, data,
                   extracted_text, gemini_analysis, spacy_entities, final_report,
                   raised, calls, log, search_num>>

\* the request just answered failed: no report, or an error report
RequestFailed ==
    \/ raised # "none"
    \/ "gemini_report" \notin response.body.keys

\* the long-lived front-ends (browser UI, HTTP server) wait for the next
\* request; the locals of the finished request are gone
NextRequest ==
    /\ pc = "responded" /\ variant \in {"app", "server"}
    /\ pc' = "idle"
    /\ source' = NoSource
    /\ fs_exists' = FALSE
    /\ data' = B("null", "", Absent)
    /\ extracted_text' = TextNone
    /\ gemini_analysis' = GNone
    /\ spacy_entities' = "-"
    /\ final_report' = NoReport
    /\ raised' = "none"
    /\ calls' = NoCalls
    /\ log' = {}
    /\ search_num' = 0
    /\ response' = NoResponse
    /\ failed_before' = (failed_before \/ RequestFailed)
    /\ UNCHANGED aux_vars
    /\ UNCHANGED <<variant, config, gemini_model, spacy_nlp, google_search_service>>

Next ==
    \/ Construct
    \/ AppAnalyze
    \/ CliRun
    \/ AnalyzeEndpoint
    \/ Classify
    \/ ExtractEntities
    \/ Enrich
    \/ Respond
    \/ NextRequest

Spec == Init /\ [][Next]_vars

TypeOK ==
    /\ variant \in Variants
    /\ pc \in {"start", "dead", "idle", "classify", "entities", "enrich",
               "returned", "raised", "responded"}
    /\ google_search_service \in {"handle", "None"}

-----------------------------------------------------------------------------
(* Properties *)

\* a request of the app or cli variant has been resolved
Resolved == variant \in {"app", "cli"} /\ source # NoSource

\* the input is a path (not a URL, not blank) to a file that does not exist
MissingFile == Resolved /\ NonBlank(source) /\ ~IsUrl(source) /\ ~fs_exists

ErrorOnly(report) == report.keys = {"error"}

\* C1 (as stated): in every variant that accepts a file path (app, cli), for a
\* path to a file that does not exist the resolver yields no text, the
\* pipeline ends with a report holding only an error field and the
\* classifier is never called.
C1_MissingFileNoText ==
    MissingFile =>
        /\ ~Truthy(extracted_text)
        /\ calls.gemini = 0
        /\ pc \in {"returned", "responded"}
        /\ variant = "cli" => ErrorOnly(final_report)

\* C1 (amended): in the cli variant a path to a file that does not exist
\* yields no text, run_full_analysis returns a report holding only the error
\* field, no extractor and no classifier call is made; in the app variant the
\* same string is taken as literal text and goes on to the classifier.
C1_MissingFilePerVariant ==
    MissingFile =>
        IF variant = "cli"
        THEN /\ extracted_text = TextNone
             /\ pc \in {"returned", "responded"}
             /\ final_report = ErrorReport("Failed to extract text from the source.")
             /\ ErrorOnly(final_report)
             /\ calls = NoCalls
             /\ raised = "none"
        ELSE /\ extracted_text = Text("literal", "str", "source")
             /\ pc # "idle"
             /\ pc \in {"returned", "raised", "responded"} => calls.gemini = 1

C1_Witness ==
    /\ MissingFile /\ variant = "cli" /\ pc = "responded"
    /\ response = Resp(0, "print", ErrorReport("Failed to extract text from the source."))

SupportedExts == {".docx", ".pdf", ".png", ".jpg", ".jpeg", ".tiff", ".bmp"}

\* the input is resolved as the path of an existing file whose extension,
\* lower-cased, is none of the supported ones
UnsupportedFile ==
    Resolved /\ ~IsUrl(source) /\ fs_exists /\ Lower(source.ext) \notin SupportedExts

\* C2: for an existing file with an unsupported extension (compared
\* case-insensitively) the resolver logs the unsupported-type error and
\* returns None; no extractor is called, the name is not used as literal
\* text, and nothing reaches the classifier.
C2_UnsupportedExtension ==
    UnsupportedFile =>
        /\ extracted_text = TextNone
        /\ "Unsupported file type" \in log
        /\ calls.extractor = "none"
        /\ calls.gemini = 0
        /\ pc \in {"returned", "responded"}

C2_Witness ==
    /\ UnsupportedFile /\ source.ext = ".TXT" /\ variant = "app"
    /\ response = Resp(0, "st_error", NoReport)

\* the classifier step has run and returned no verdict object
ClassifierStepFailed == calls.gemini >= 1 /\ ~Truthy(gemini_analysis)

\* C3: in every variant, when the classifier step fails, no enrichment is
\* attempted (no search call, no remedy lookup, no entity extraction) and
\* run_full_analysis returns a report whose only field is the error field.
C3_NoEnrichmentAfterClassifierFailure ==
    ClassifierStepFailed =>
        /\ pc \in {"returned", "responded"}
        /\ ErrorOnly(final_report)
        /\ final_report = ErrorReport(ClassifierErrorMessage(variant))
        /\ calls.search = 0 /\ calls.remedy = 0 /\ calls.ner = 0
        /\ search_num = 0
        /\ spacy_entities = "-"
        /\ raised = "none"

C3_Witness ==
    /\ ClassifierStepFailed /\ variant = "cli" /\ pc = "returned"
    /\ gemini_analysis = Obj(Absent, Absent, Absent, FALSE)

\* C4: whatever the remote model does (the call raises, the reply is not
\* JSON, the reply is JSON of another shape), run_full_analysis returns a
\* report; no exception caused by the reply leaves the pipeline.  (The
\* named-entity pass raising is not an outcome of the remote model.)
C4_ReplyNeverRaises ==
    calls.gemini >= 1 =>
        /\ raised \in {"none", "ValueError: spaCy"}
        /\ (pc \in {"returned", "responded"} /\ raised = "none")
             => final_report # NoReport

\* C5: the related-news lookup asks the search service for at most 3
\* results and the list it returns has at most 3 items, however many items
\* the response of the service carries.
C5_AtMostThreeNews ==
    /\ search_num <= 3
    /\ "related_news" \in final_report.keys
         => Len(final_report.related_news.items) <= 3

\* the remedy lookup has been called with a category that is no key of the
\* remedy table
LookupOfUnknownCategory ==
    /\ calls.remedy >= 1
    /\ ~(CategoryOf(gemini_analysis).t = "str"
         /\ CategoryOf(gemini_analysis).v \in DOMAIN link_map(variant))

\* C6: for every category value that is no key of the remedy table the
\* lookup does not fail and returns the link and the description of the
\* "General Fake News" entry with the fixed list of safety tips.
C6_DefaultRemedyForUnknownCategory ==
    LookupOfUnknownCategory =>
        /\ raised = "none"
        /\ pc \in {"returned", "responded"}
        /\ final_report.remedies_report.reporting_link
             = link_map(variant)["General Fake News"].link
        /\ final_report.remedies_report.reporting_description
             = link_map(variant)["General Fake News"].description
        /\ final_report.remedies_report.remedies = SafetyTips(variant)

\* the classifier returned the verdict FAKE with the category "Job Scam"
FakeJobScam ==
    /\ calls.gemini >= 1
    /\ gemini_analysis.t = "obj"
    /\ gemini_analysis.verdict = JStr("FAKE")
    /\ gemini_analysis.scam_category = JStr("Job Scam")

\* C7: in every variant, when the classifier returns FAKE with the category
\* "Job Scam", the report run_full_analysis returns (and the front-end hands
\* on) holds a remedy record whose reporting link is the cybercrime portal,
\* whether the related-news lookup succeeded, failed or is disabled; nothing
\* but a raising named-entity pass keeps the report from being returned.
C7_JobScamRemedy ==
    FakeJobScam =>
        /\ (pc \in {"returned", "responded"} /\ raised = "none") =>
             /\ "remedies_report" \in final_report.keys
             /\ final_report.remedies_report.reporting_link = "https://cybercrime.gov.in/"
             /\ final_report.remedies_report.title_for = JStr("Job Scam")
             /\ "error" \notin final_report.keys
        /\ (pc = "responded" /\ raised = "none") => response.body = final_report
        /\ raised \in {"none", "ValueError: spaCy"}

\* a "Job Scam" report returned after the search call failed
C7_Witness ==
    /\ FakeJobScam /\ pc = "responded" /\ variant = "server"
    /\ calls.search = 1 /\ "Google Search API request failed" \in log
    /\ "related_news" \in response.body.keys /\ response.body.related_news.isNone
    /\ response.body.remedies_report.reporting_link = "https://cybercrime.gov.in/"

\* run_full_analysis returned a report that is not an error report
SuccessfulRun ==
    pc \in {"returned", "responded"} /\ "gemini_report" \in final_report.keys

\* C8: the report of a successful run holds a remedy section iff the
\* classifier's verdict is FAKE, whatever category the reply carries.
C8_RemedyIffFake ==
    SuccessfulRun =>
        /\ final_report.gemini_report = gemini_analysis
        /\ "remedies_report" \in final_report.keys
             <=> (gemini_analysis.verdict = JStr("FAKE"))
        /\ "remedies_report" \notin final_report.keys
             => final_report.remedies_report = NoRemedy

\* an authentic verdict carrying a scam category: no remedy section
C8_Witness ==
    /\ SuccessfulRun
    /\ gemini_analysis.verdict = JStr("REAL")
    /\ gemini_analysis.scam_category = JStr("Job Scam")
    /\ "remedies_report" \notin final_report.keys

\* the request body is absent or has no text field
NoTextField == data.t # "obj" \/ data.text = Absent

\* the server has answered a request
Answered == variant = "server" /\ pc = "responded"

\* C9: the /analyze route answers 400 without calling the pipeline when the
\* body is absent or has no text field, 500 with the error field when the
\* pipeline reports an error or raises, and 200 with the report otherwise.
C9_EndpointStatus ==
    Answered =>
        IF NoTextField
        THEN /\ response = Resp(400, "json", ErrorReport("No text provided"))
             /\ calls = NoCalls /\ extracted_text = TextNone
        ELSE IF final_report = NoReport \/ "error" \in final_report.keys
        THEN /\ response.status = 500 /\ response.kind = "json"
             /\ ErrorOnly(response.body)
        ELSE response = Resp(200, "json", final_report)

\* an enrichment step has failed: the search call raised or returned a
\* malformed response (and the reply itself does not make the assembly
\* raise), or the named-entity pass raised
SearchFailed ==
    /\ calls.search >= 1 /\ "Google Search API request failed" \in log
    /\ AssemblyRaises(variant, gemini_analysis) = "none"
EntitiesFailed ==
    /\ calls.ner >= 1 /\ spacy_entities = "-"
    /\ AssemblyRaises(variant, gemini_analysis) = "none"

\* C10: a failing enrichment step (web search, named-entity pass) never
\* fails the request: run_full_analysis still returns the verdict report,
\* without error field, only the failed section missing or empty.
C10_EnrichmentNeverFails ==
    (SearchFailed \/ EntitiesFailed) =>
        /\ pc \in {"returned", "responded"}
        /\ raised = "none"
        /\ "error" \notin final_report.keys
        /\ final_report.gemini_report = gemini_analysis
        /\ SearchFailed => final_report.related_news = NewsNone

\* C11: without the remote-model credential the construction of the
\* analyzer fails before any client handle exists, in every variant, and the
\* process never extracts, classifies or enriches anything.
C11_MissingCredentialFatal ==
    ~config.GEMINI_API_KEY =>
        /\ pc \in {"start", "dead"}
        /\ gemini_model = "None" /\ spacy_nlp = "None" /\ google_search_service = "None"
        /\ calls = NoCalls /\ search_num = 0 /\ log = {}
        /\ source = NoSource /\ extracted_text = TextNone /\ gemini_analysis = GNone
        /\ final_report = NoReport /\ response = NoResponse

C11_Witness ==
    /\ ~config.GEMINI_API_KEY /\ config.SEARCH_API_KEY /\ config.SEARCH_ENGINE_ID
    /\ pc = "dead" /\ variant = "app" /\ raised = "ValueError: API key not found"

\* a search credential is missing
SearchCredentialMissing == ~config.SEARCH_API_KEY \/ ~config.SEARCH_ENGINE_ID

\* the analyzer has been constructed
Constructed == pc \notin {"start", "dead"}

\* C12: when a search credential is missing or the search client cannot be
\* built, the analyzer is constructed all the same with the search feature
\* off; then no request calls the search service, every related-news lookup
\* yields None, and the verdict and remedy parts of a report (and its keys)
\* are those any search outcome would have left with the feature on.
C12_SearchDisabledOnly ==
    /\ (config.GEMINI_API_KEY /\ pc # "start") => Constructed /\ gemini_model = "handle"
    /\ (Constructed /\ SearchCredentialMissing) => google_search_service = "None"
    /\ (Constructed /\ google_search_service = "None") =>
         /\ calls.search = 0 /\ search_num = 0
         /\ "Google Search API request failed" \notin log
         /\ final_report.related_news = NewsNone
         /\ SuccessfulRun =>
              \A out \in SearchOutcomes :
                LET on == Assemble(variant, gemini_analysis, spacy_entities, "handle", out)
                IN  /\ on.gemini_report = final_report.gemini_report
                    /\ on.remedies_report = final_report.remedies_report
                    /\ on.keys = final_report.keys

\* both credentials are there, the client could not be built, and a FAKE
\* report with a claim came back with its related-news entry set to None
C12_Witness ==
    /\ ~SearchCredentialMissing /\ google_search_service = "None"
    /\ SuccessfulRun /\ pc = "responded"
    /\ {"related_news", "remedies_report"} \subseteq final_report.keys
    /\ final_report.related_news = NewsNone

-----------------------------------------------------------------------------
(* _extract_text_from_pdf: the page loop (app.py 77-99, doc_extractor.py 79-101) *)

main_vars ==
    <<variant, config, pc, gemini_model, spacy_nlp, google_search_service, source,
      fs_exists, data, extracted_text, gemini_analysis, spacy_entities, final_report,
      raised, calls, log, search_num, response, failed_before>>

\* an analyzer of one of the variants vs, constructed and waiting
AnalyzerAtRest(vs) ==
    /\ variant \in vs
    /\ config \in {c \in Configs : c.GEMINI_API_KEY}
    /\ pc = "idle"
    /\ gemini_model = "handle"
    /\ spacy_nlp = (IF variant \in {"cli", "server"} THEN "handle" ELSE "None")
    /\ google_search_service = SearchHandle(config, FALSE)
    /\ failed_before = FALSE
    /\ source = NoSource
    /\ fs_exists = FALSE
    /\ data = B("null", "", Absent)
    /\ extracted_text = TextNone
    /\ gemini_analysis = GNone
    /\ spacy_entities = "-"
    /\ final_report = NoReport
    /\ raised = "none"
    /\ calls = NoCalls
    /\ log = {}
    /\ search_num = 0
    /\ response = NoResponse

MaxPages == 3
MinPageChars == 50

\* what page.extract_text() or image_to_string() gives: an exception, None, or
\* a string of body characters with pad whitespace characters around them
PageText(t, pad, body) == [t |-> t, pad |-> pad, body |-> body]
PageRaises == PageText("raise", 0, 0)
DirectOutcomes ==
    {PageRaises, PageText("none", 0, 0), PageText("str", 0, 0),
     PageText("str", 2, MinPageChars), PageText("str", 0, MinPageChars + 1)}
OcrOutcomes == {PageRaises, PageText("str", 0, 0), PageText("str", 1, 30)}
Pages == [direct : DirectOutcomes, ocr : OcrOutcomes]

PyLen(s) == s.pad + s.body
StripLen(s) == s.body

\* mutant: the threshold is applied to the untrimmed page text
UsesDirect_untrimmed(page_text) ==
    /\ page_text.t = "str" /\ PyLen(page_text) > 0
    /\ PyLen(page_text) > MinPageChars

\* if page_text and len(page_text.strip()) > 50
UsesDirect(page_text) ==
    /\ page_text.t = "str" /\ PyLen(page_text) > 0
    /\ StripLen(page_text) > MinPageChars

\* one full_text += <text> + '\n'
Piece(page, via, text) == [page |-> page, via |-> via, text |-> text]

PdfState(pos, pages, i, full_text, ocr_calls, ocr_log, result) ==
    [pos |-> pos, pages |-> pages, i |-> i, full_text |-> full_text,
     ocr_calls |-> ocr_calls, ocr_log |-> ocr_log, result |-> result]

PageSeqs == UNION {[1..n -> Pages] : n \in 0..MaxPages}

InitPdf ==
    /\ AnalyzerAtRest({"app", "cli"})
    /\ fence = FenceIdle
    /\ threads = ThreadsIdle
    /\ \E ps \in PageSeqs : pdf = PdfState("open", ps, 0, <<>>, <<>>, <<>>, "unset")

\* with pdfplumber.open(file_path) as pdf; a failure is caught by the outer handler
PdfOpen ==
    /\ pdf.pos = "open"
    /\ \E open_raises \in BOOLEAN :
         pdf' = IF open_raises
                THEN [pdf EXCEPT !.pos = "done", !.result = "None"]
                ELSE [pdf EXCEPT !.pos = "loop"]
    /\ UNCHANGED <<main_vars, fence, threads>>

\* one iteration of: for i, page in enumerate(pdf.pages)
PdfPage ==
    /\ pdf.pos = "loop" /\ pdf.i < Len(pdf.pages)
    /\ LET page == pdf.pages[pdf.i + 1]
           n == pdf.i + 1
       IN  pdf' =
             IF page.direct.t = "raise"
             THEN [pdf EXCEPT !.pos = "done", !.result = "None"]
             ELSE IF UsesDirect(page.direct)
             THEN [pdf EXCEPT !.i = n,
                              !.full_text = Append(@, Piece(n, "direct", page.direct))]
             ELSE IF page.ocr.t = "raise"
             THEN [pdf EXCEPT !.i = n,
                              !.ocr_calls = Append(@, n),
                              !.ocr_log = Append(@, n)]
             ELSE [pdf EXCEPT !.i = n,
                              !.ocr_calls = Append(@, n),
                              !.full_text = Append(@, Piece(n, "ocr", page.ocr))]
    /\ UNCHANGED <<main_vars, fence, threads>>

\* return full_text
PdfReturn ==
    /\ pdf.pos = "loop" /\ pdf.i = Len(pdf.pages)
    /\ pdf' = [pdf EXCEPT !.pos = "done", !.result = "full_text"]
    /\ UNCHANGED <<main_vars, fence, threads>>

NextPdf ==
    \/ PdfOpen
    \/ PdfPage
    \/ PdfReturn

SpecPdf == InitPdf /\ [][NextPdf]_vars

\* the page's direct extraction does not exceed the threshold after trimming
BelowThreshold(page) ==
    page.direct.t = "none" \/ page.direct.body <= MinPageChars

PdfReturned == pdf.pos = "done" /\ pdf.result = "full_text"

\* C13: when the PDF extractor returns its text, OCR has run once for exactly
\* the pages whose direct text does not exceed 50 characters after trimming,
\* the pages whose OCR failed are exactly the pages missing from the text, and
\* the text holds the direct or OCR text of every other page, in page order.
C13_PdfPerPageFallback ==
    PdfReturned =>
        LET ps == pdf.pages
            n == Len(ps)
            ft == pdf.full_text
            oc == pdf.ocr_calls
            Low == {k \in 1..n : BelowThreshold(ps[k])}
            Failed == {k \in Low : ps[k].ocr.t = "raise"}
        IN  /\ Len(oc) = Cardinality(Low)
            /\ {oc[j] : j \in 1..Len(oc)} = Low
            /\ {pdf.ocr_log[j] : j \in 1..Len(pdf.ocr_log)} = Failed
            /\ {ft[j].page : j \in 1..Len(ft)} = (1..n) \ Failed
            /\ \A j \in 1..Len(ft) :
                 /\ j > 1 => ft[j - 1].page < ft[j].page
                 /\ ft[j] = IF ft[j].page \in Low
                            THEN Piece(ft[j].page, "ocr", ps[ft[j].page].ocr)
                            ELSE Piece(ft[j].page, "direct", ps[ft[j].page].direct)

\* three pages: direct text, a failed OCR, and a padded 50-character page read by OCR
C13_Witness ==
    /\ PdfReturned /\ Len(pdf.pages) = 3
    /\ pdf.pages[1].direct = PageText("str", 0, MinPageChars + 1)
    /\ pdf.pages[2].direct = PageText("none", 0, 0) /\ pdf.pages[2].ocr = PageRaises
    /\ pdf.pages[3].direct = PageText("str", 2, MinPageChars)
    /\ pdf.pages[3].ocr = PageText("str", 1, 30)
    /\ Len(pdf.full_text) = 2 /\ pdf.ocr_log = <<2>>

-----------------------------------------------------------------------------
(* Resolver order *)

\* the resolver of the app or cli variant has run on the input (the app's
\* button handler rejects a blank input before calling it)
ResolverRan == Resolved /\ (variant = "app" => NonBlank(source))

\* the server has passed the text field of the body to its resolver
ServerResolved == variant = "server" /\ extracted_text # TextNone

\* C14 (as stated): a string with a URL scheme prefix is fetched even if a
\* file of that name exists; else an existing file is dispatched by extension;
\* otherwise the string itself is returned unchanged as literal text.
C14_ResolverOrder ==
    /\ ResolverRan =>
         /\ IsUrl(source) => calls.extractor = "url"
         /\ (~IsUrl(source) /\ fs_exists) =>
              calls.extractor = DispatchByExtension(source)
         /\ (~IsUrl(source) /\ ~fs_exists) =>
              /\ calls.extractor = "none"
              /\ extracted_text =
                   Text("literal", "str", IF NonBlank(source) THEN "source" ELSE "")
    /\ ServerResolved => extracted_text.origin = "literal"

\* C14 (amended): in the app and cli variants a string with a URL scheme
\* prefix (any case) is fetched even if a file of that name exists, else an
\* existing file is dispatched by its lower-cased extension; a string that is
\* neither is returned unchanged as literal text by the app variant only, the
\* cli variant logs "Input source not found" and yields no text. The server
\* variant classifies nothing: its input is returned unchanged, URL or not,
\* and no extractor is called.
C14_ResolverOrderPerVariant ==
    /\ ResolverRan =>
         /\ IsUrl(source) =>
              /\ calls.extractor = "url"
              /\ extracted_text.origin \in {"url", "none"}
         /\ (~IsUrl(source) /\ fs_exists) =>
              /\ calls.extractor = DispatchByExtension(source)
              /\ extracted_text.origin \in {DispatchByExtension(source), "none"}
              /\ DispatchByExtension(source) = "none" => extracted_text = TextNone
         /\ (~IsUrl(source) /\ ~fs_exists) =>
              /\ calls.extractor = "none"
              /\ variant = "app" => extracted_text = Text("literal", "str", "source")
              /\ variant = "cli" =>
                   /\ extracted_text = TextNone
                   /\ "Input source not found" \in log
    /\ ServerResolved =>
         /\ extracted_text = Text("literal", data.text.t, data.text.v)
         /\ calls.extractor = "none"

\* a URL that is also the name of an existing file is fetched by the app variant
C14_Witness ==
    /\ variant = "app" /\ ResolverRan /\ IsUrl(source) /\ fs_exists
    /\ source.scheme = "HTTPS://" /\ source.ext = ".pdf"
    /\ calls.extractor = "url" /\ extracted_text = Text("url", "str", "text")
    /\ pc = "classify"

-----------------------------------------------------------------------------
(* The long-lived server *)

\* the per-request variables as they are before the first request
RequestStateFresh ==
    /\ source = NoSource /\ fs_exists = FALSE /\ data = B("null", "", Absent)
    /\ extracted_text = TextNone /\ gemini_analysis = GNone /\ spacy_entities = "-"
    /\ final_report = NoReport /\ raised = "none" /\ calls = NoCalls /\ log = {}
    /\ search_num = 0 /\ response = NoResponse

\* C15: in the server, every request ends with a JSON response that carries
\* a report or an error field, and after any earlier failure the server waits
\* for the next request in the state it had before the first one, with the
\* analyzer's handles as construction left them.
C15_EveryRequestAnswered ==
    /\ Answered =>
         /\ response.kind = "json"
         /\ response.body # NoReport
         /\ "error" \in response.body.keys \/ "gemini_report" \in response.body.keys
    /\ (variant = "server" /\ pc = "idle" /\ failed_before) =>
         /\ RequestStateFresh
         /\ gemini_model = "handle"
         /\ SearchCredentialMissing => google_search_service = "None"

-----------------------------------------------------------------------------
(* Related-news policy *)

\* the classifier's reply was an object and the enrichment stage has run
EnrichmentRan ==
    /\ pc \in {"returned", "raised", "responded"}
    /\ calls.gemini = 1 /\ Truthy(gemini_analysis) /\ HasGet(gemini_analysis)
    /\ raised # "ValueError: spaCy"

ClaimGiven == Truthy(dict_get(gemini_analysis, "main_claim"))

\* C17: after the enrichment stage, the app variant has made the related-news
\* lookup exactly when the main claim is non-empty, whatever the verdict; the
\* cli and server variants have made it only for a FAKE verdict with a
\* non-empty main claim (exactly then when the report is returned) and never
\* for another verdict. With a search handle, a lookup is one search call.
C17_NewsPolicy ==
    EnrichmentRan =>
        LET looked == "related_news" \in final_report.keys
            searched == calls.search = 1
            online == google_search_service = "handle"
        IN  /\ variant = "app" =>
                 /\ raised = "none" => (looked <=> ClaimGiven)
                 /\ online => (searched <=> ClaimGiven)
            /\ variant \in {"cli", "server"} =>
                 /\ raised = "none" =>
                      (looked <=> (IsFake(gemini_analysis) /\ ClaimGiven))
                 /\ (online /\ raised = "none") =>
                      (searched <=> (IsFake(gemini_analysis) /\ ClaimGiven))
                 /\ ~IsFake(gemini_analysis) => ~looked /\ calls.search = 0
                 /\ searched => IsFake(gemini_analysis) /\ ClaimGiven
            /\ ~online => calls.search = 0

\* the app variant looks for news about a claim whose verdict is REAL
C17_Witness ==
    /\ variant = "app" /\ EnrichmentRan /\ pc = "returned"
    /\ dict_get(gemini_analysis, "verdict") = JStr("REAL") /\ ClaimGiven
    /\ "related_news" \in final_report.keys /\ calls.search = 1
    /\ "remedies_report" \notin final_report.keys

-----------------------------------------------------------------------------
(* Single attempt *)

\* the call of the remote model failed (it raised, or its reply did not parse)
ModelCallFailed ==
    calls.gemini >= 1 /\ gemini_analysis = GNone
    /\ log \cap {"Gemini API Error", "An error occurred with the Gemini API",
                 "AI returned an invalid JSON format."} # {}

SearchCallFailed == "Google Search API request failed" \in log

\* C19: within one pipeline invocation the remote model is called at most
\* once and the search service at most once; after a failed model call the
\* invocation has ended with exactly one call made and no search, and after
\* a failed search call exactly one search call has been made.
C19_SingleAttempt ==
    /\ calls.gemini <= 1 /\ calls.search <= 1
    /\ ModelCallFailed =>
         /\ calls.gemini = 1 /\ calls.search = 0
         /\ pc \in {"returned", "responded"}
    /\ SearchCallFailed =>
         /\ calls.search = 1 /\ calls.gemini = 1
         /\ pc \in {"returned", "raised", "responded"}

\* the model call raised and the invocation returned after that one call
C19_Witness ==
    /\ ModelCallFailed /\ pc = "returned" /\ calls.gemini = 1
    /\ final_report = ErrorReport(ClassifierErrorMessage(variant))

-----------------------------------------------------------------------------
(* Shape of the report *)

EnrichmentKeys == {"named_entities", "remedies_report", "related_news"}

\* C20: whatever run_full_analysis returns is a report, and it is either an
\* error report whose only key is the error field and which holds nothing
\* else, or a verdict report holding the classifier's object under
\* gemini_report and no error field; the enrichment keys appear only in a
\* verdict report.
C20_ReportShapes ==
    pc = "returned" =>
        /\ final_report # NoReport
        /\ \/ /\ ErrorOnly(final_report)
              /\ final_report.error # ""
              /\ final_report = ErrorReport(final_report.error)
           \/ /\ "gemini_report" \in final_report.keys
              /\ "error" \notin final_report.keys /\ final_report.error = ""
              /\ final_report.gemini_report = gemini_analysis
              /\ HasGet(gemini_analysis)
              /\ final_report.keys \subseteq {"gemini_report"} \cup EnrichmentKeys
        /\ final_report.keys \cap EnrichmentKeys # {} =>
             "gemini_report" \in final_report.keys /\ "error" \notin final_report.keys

\* a verdict report of the cli variant with all three enrichment sections
C20_Witness ==
    /\ pc = "returned" /\ variant = "cli"
    /\ final_report.keys = {"gemini_report"} \cup EnrichmentKeys
    /\ final_report.gemini_report = gemini_analysis

-----------------------------------------------------------------------------
(* _analyze_text_with_gemini: cleaning and parsing of the reply text
   (app.py 160-161, doc_extractor.py 158-159, server.py 74-75).
   A text is a sequence of characters; BT stands for the backtick. *)

MaxValueLen == 4

BT == "BACKTICK"
QT == "\""
Whitespace == {" ", "\n"}
Fence3 == <<BT, BT, BT>>
FenceJson == <<BT, BT, BT, "j", "s", "o", "n">>

RECURSIVE LStrip(_, _)
\* str.lstrip(chars): drop leading characters that are in the set
LStrip(s, chars) ==
    IF s # <<>> /\ Head(s) \in chars THEN LStrip(Tail(s), chars) ELSE s

RECURSIVE RStrip(_, _)
\* str.rstrip(chars)
RStrip(s, chars) ==
    IF s # <<>> /\ s[Len(s)] \in chars THEN RStrip(SubSeq(s, 1, Len(s) - 1), chars) ELSE s

\* str.strip()
PyStrip(s) == RStrip(LStrip(s, Whitespace), Whitespace)

CharsOf(s) == {s[i] : i \in 1..Len(s)}

RECURSIVE Remove(_, _)
\* str.replace(sub, ""): every occurrence, found left to right
Remove(s, sub) ==
    IF Len(s) < Len(sub) THEN s
    ELSE IF SubSeq(s, 1, Len(sub)) = sub
         THEN Remove(SubSeq(s, Len(sub) + 1, Len(s)), sub)
         ELSE <<Head(s)>> \o Remove(Tail(s), sub)

\* cleaned_response, as each variant computes it from response.text
clean_reply(v, text) ==
    IF v = "app"
    THEN Remove(Remove(PyStrip(text), FenceJson), Fence3)
    ELSE RStrip(LStrip(PyStrip(text), CharsOf(FenceJson)), CharsOf(Fence3))

\* a parsed one-member object, or the failure of json.loads
Parsed(t, key, value) == [t |-> t, key |-> key, value |-> value]
ParseError == Parsed("JSONDecodeError", <<>>, <<>>)

\* the text of the object {"key":"value"}
ObjectText(key, value) ==
    <<"{", QT>> \o key \o <<QT, ":", QT>> \o value \o <<QT, "}">>

\* json.loads on the texts of the model: whitespace, then one object with one
\* string member and no escapes, then whitespace; anything else is an error
json_loads(text) ==
    LET t == PyStrip(text)
        n == Len(t)
    IN  IF n < 7 \/ t[1] # "{" \/ t[2] # QT \/ t[n] # "}" \/ t[n - 1] # QT
        THEN ParseError
        ELSE LET inner == SubSeq(t, 3, n - 2)
                 quotes == {i \in 1..Len(inner) : inner[i] = QT}
             IN  IF Cardinality(quotes) # 2 THEN ParseError
                 ELSE LET q1 == CHOOSE i \in quotes : \A j \in quotes : i <= j
                          q2 == CHOOSE i \in quotes : \A j \in quotes : j <= i
                          key == SubSeq(inner, 1, q1 - 1)
                          value == SubSeq(inner, q2 + 1, Len(inner))
                      IN  IF q2 # q1 + 2 \/ inner[q1 + 1] # ":"
                             \/ (CharsOf(key) \cup CharsOf(value))
                                  \cap ({"{", "}", ":"} \cup Whitespace) # {}
                          THEN ParseError
                          ELSE Parsed("obj", key, value)

ValueChars == {BT, "a"}
Values == UNION {[1..n -> ValueChars] : n \in 0..MaxValueLen}
Keys == {<<"a">>, <<"j", "s", "o", "n">>}

\* the object text as the model replies with it: bare, or between an opening
\* fence and a closing fence, with optional whitespace inside and around
Wrapped(open, inner, outer, body) ==
    IF open = <<>>
    THEN outer \o body \o outer
    ELSE outer \o open \o inner \o body \o inner \o Fence3 \o outer

Replies(key, value) ==
    {Wrapped(open, inner, outer, ObjectText(key, value)) :
        open \in {<<>>, Fence3, FenceJson},
        inner \in {<<>>, <<"\n">>},
        outer \in {<<>>, <<" ">>}}

FenceState(pos, key, value, text, cleaned, result) ==
    [pos |-> pos, key |-> key, value |-> value, text |-> text,
     cleaned |-> cleaned, result |-> result]

InitFence ==
    /\ AnalyzerAtRest(Variants)
    /\ pdf = PdfIdle
    /\ threads = ThreadsIdle
    /\ \E key \in Keys, value \in Values :
         \E text \in Replies(key, value) :
           fence = FenceState("reply", key, value, text, <<>>, Parsed("unset", <<>>, <<>>))

\* cleaned_response = response.text.strip()...
FenceClean ==
    /\ fence.pos = "reply"
    /\ fence' = [fence EXCEPT !.pos = "cleaned",
                              !.cleaned = clean_reply(variant, fence.text)]
    /\ UNCHANGED <<main_vars, pdf, threads>>

\* return json.loads(cleaned_response), None from the handler on an error
FenceParse ==
    /\ fence.pos = "cleaned"
    /\ fence' = [fence EXCEPT !.pos = "done", !.result = json_loads(fence.cleaned)]
    /\ UNCHANGED <<main_vars, pdf, threads>>

NextFence ==
    \/ FenceClean
    \/ FenceParse

SpecFence == InitFence /\ [][NextFence]_vars

\* C18: for a reply that is a valid JSON object, bare or wrapped in a code
\* fence with optional whitespace, the classifier returns the object obtained
\* by parsing the unwrapped text, with its key and its string value
\* unchanged, also when the value contains backticks.
C18_FenceStrippingKeepsValues ==
    fence.pos = "done" => fence.result = Parsed("obj", fence.key, fence.value)

-----------------------------------------------------------------------------
(* server.py: /analyze requests handled concurrently by one shared analyzer
   (server.py 129-152). Each request runs analyze_endpoint on its own
   thread; the locals of a request are the thread's own. *)

NThreads == 2
ThreadIds == 1..NThreads

\* bodies, model replies and search replies of the concurrent requests
ConcBodies ==
    {B("num", "5", Absent), B("obj", "{..}", Absent),
     B("obj", "{..}", JStr("")), B("obj", "{..}", JStr("the text"))}
ConcReplies ==
    {Reply("raises", "-", GNone),
     Reply("ok", "value", Scalar("str", "text")),
     Reply("ok", "value", Obj(JStr("REAL"), JStr("claim"), JStr("N/A"), TRUE)),
     Reply("ok", "value", Obj(JStr("FAKE"), JStr("claim"), JStr("Job Scam"), TRUE))}
ConcSearchOutcomes == {SO("raise", 0, FALSE, TRUE), SO("ok", 2, TRUE, TRUE)}

Thread(p, body, text, reply, g, out, report, resp) ==
    [pc |-> p, data |-> body, extracted_text |-> text, reply |-> reply,
     gemini_analysis |-> g, out |-> out, final_report |-> report, response |-> resp]

NoReply == Reply("not called", "-", GNone)

ThreadIdle ==
    Thread("idle", B("null", "", Absent), TextNone, NoReply, GNone, NoSearch,
           NoReport, NoResponse)

InitConc ==
    /\ AnalyzerAtRest({"server"})
    /\ pdf = PdfIdle
    /\ fence = FenceIdle
    /\ threads = [t \in ThreadIds |-> ThreadIdle]

\* mutant: a failed search switches the feature off for the whole analyzer
ServiceAfterLookup_disable_on_failure(service, out) ==
    IF out.kind = "raise" THEN "None" ELSE service

\* self.google_search_service after _get_related_news: it is only read
ServiceAfterLookup(service, out) == service

shared_vars == <<variant, config, pc, gemini_model, spacy_nlp, source, fs_exists, data,
                 extracted_text, gemini_analysis, spacy_entities, final_report,
                 raised, calls, log, search_num, response, failed_before>>

\* analyze_endpoint up to the classifier call, on thread t
TReceive(t) ==
    /\ threads[t].pc = "idle"
    /\ \E body \in ConcBodies :
         threads' = [threads EXCEPT ![t] =
           IF ~Truthy(body)
           THEN [@ EXCEPT !.data = body, !.pc = "responded",
                          !.response = Resp(400, "json", ErrorReport("No text provided"))]
           ELSE IF InRaises(body) \/ (TextIn(body) /\ SubscriptRaises(body))
           THEN [@ EXCEPT !.data = body, !.pc = "responded",
                          !.response = Resp(500, "unhandled", NoReport)]
           ELSE IF ~TextIn(body)
           THEN [@ EXCEPT !.data = body, !.pc = "responded",
                          !.response = Resp(400, "json", ErrorReport("No text provided"))]
           ELSE IF ~Truthy(server_get_text_from_input(body.text))
           THEN [@ EXCEPT !.data = body, !.pc = "returned",
                          !.extracted_text = server_get_text_from_input(body.text),
                          !.final_report = ErrorReport(ExtractErrorMessage("server"))]
           ELSE [@ EXCEPT !.data = body, !.pc = "classify",
                          !.extracted_text = server_get_text_from_input(body.text)]]
    /\ UNCHANGED <<shared_vars, google_search_service, pdf, fence>>

\* run_full_analysis on thread t: the classifier call and the test of its result
TClassify(t) ==
    /\ threads[t].pc = "classify"
    /\ gemini_model = "handle"
    /\ \E reply \in ConcReplies :
         LET g == analyze_text_with_gemini(reply)
         IN  threads' = [threads EXCEPT ![t] =
               IF ClassifierFailed(g)
               THEN [@ EXCEPT !.reply = reply, !.gemini_analysis = g, !.pc = "returned",
                              !.final_report = ErrorReport(ClassifierErrorMessage("server"))]
               ELSE [@ EXCEPT !.reply = reply, !.gemini_analysis = g, !.pc = "enrich"]]
    /\ UNCHANGED <<shared_vars, google_search_service, pdf, fence>>

\* run_full_analysis on thread t: remedies, related news, the report
TEnrich(t) ==
    /\ threads[t].pc = "enrich"
    /\ LET g == threads[t].gemini_analysis
       IN  \E out \in (IF NewsAttempted("server", g) /\ SearchCalled(google_search_service)
                       THEN ConcSearchOutcomes ELSE {NoSearch}) :
             /\ threads' = [threads EXCEPT ![t] =
                  IF AssemblyRaises("server", g) # "none"
                  THEN [@ EXCEPT !.out = out, !.pc = "raised"]
                  ELSE [@ EXCEPT !.out = out, !.pc = "returned",
                                 !.final_report =
                                    Assemble("server", g, "-", google_search_service, out)]]
             /\ google_search_service' = ServiceAfterLookup(google_search_service, out)
    /\ UNCHANGED <<shared_vars, pdf, fence>>

\* analyze_endpoint on thread t: the response for what run_full_analysis
\* returned or raised
TRespond(t) ==
    /\ threads[t].pc \in {"returned", "raised"}
    /\ threads' = [threads EXCEPT ![t] =
         [@ EXCEPT !.pc = "responded",
                   !.response =
                      IF threads[t].pc = "returned"
                      THEN Resp(StatusOf(threads[t].final_report), "json",
                                threads[t].final_report)
                      ELSE Resp(500, "json",
                                ErrorReport("An internal server error occurred."))]]
    /\ UNCHANGED <<shared_vars, google_search_service, pdf, fence>>

\* the response is sent; thread t takes the next request
TFinish(t) ==
    /\ threads[t].pc = "responded"
    /\ threads' = [threads EXCEPT ![t] = ThreadIdle]
    /\ UNCHANGED <<shared_vars, google_search_service, pdf, fence>>

NextConc ==
    \/ \E t \in ThreadIds : TReceive(t)
    \/ \E t \in ThreadIds : TClassify(t)
    \/ \E t \in ThreadIds : TEnrich(t)
    \/ \E t \in ThreadIds : TRespond(t)
    \/ \E t \in ThreadIds : TFinish(t)

SpecConc == InitConc /\ [][NextConc]_vars

\* the response analyze_endpoint gives to one request handled alone by an
\* analyzer whose search handle is service, with the same external replies
SoloResponse(service, body, reply, out) ==
    IF ~Truthy(body) THEN Resp(400, "json", ErrorReport("No text provided"))
    ELSE IF InRaises(body) \/ (TextIn(body) /\ SubscriptRaises(body))
    THEN Resp(500, "unhandled", NoReport)
    ELSE IF ~TextIn(body) THEN Resp(400, "json", ErrorReport("No text provided"))
    ELSE IF ~Truthy(server_get_text_from_input(body.text))
    THEN Resp(500, "json", ErrorReport(ExtractErrorMessage("server")))
    ELSE LET g == analyze_text_with_gemini(reply)
         IN  IF ClassifierFailed(g)
             THEN Resp(500, "json", ErrorReport(ClassifierErrorMessage("server")))
             ELSE IF AssemblyRaises("server", g) # "none"
             THEN Resp(500, "json", ErrorReport("An internal server error occurred."))
             ELSE Resp(200, "json", Assemble("server", g, "-", service, out))

\* C16: under every interleaving of the requests, the analyzer's fields are
\* those construction gave them (model handle, NLP model, search handle,
\* config), and the response of every answered request is the one the same
\* request gets when handled alone with the same model and search replies.
C16_ConcurrentRequestsIndependent ==
    /\ gemini_model = "handle" /\ spacy_nlp = "handle"
    /\ google_search_service = SearchHandle(config, FALSE)
    /\ config.GEMINI_API_KEY
    /\ \A t \in ThreadIds :
         threads[t].pc = "responded" =>
             threads[t].response =
                 SoloResponse(SearchHandle(config, FALSE), threads[t].data,
                              threads[t].reply, threads[t].out)

\* two requests answered side by side: the search of one failed, the other
\* got its related news
C16_Witness ==
    /\ threads[1].pc = "responded" /\ threads[2].pc = "responded"
    /\ threads[2].out.kind = "raise"
    /\ threads[2].response.status = 200
    /\ threads[2].response.body.related_news = NewsNone
    /\ threads[1].response.status = 200
    /\ Len(threads[1].response.body.related_news.items) = 2

====
